---- MODULE Spec2Model ----
(***************************************************************************)
(* Membrane-slab search of scripts/protein.py: Sphere (sample_surface),    *)
(* Residue, Protein and Slice (find_residues, compute_score, thicken,      *)
(* maximise_score, the ordering operators) and the max(slices) reduction   *)
(* of scripts/membrane_plane.py.                                           *)
(*                                                                         *)
(* Numbers.  Coordinates, ASA values and thicknesses are integers.  A      *)
(* score is the exact quotient the code computes, kept as a fraction in    *)
(* lowest terms <<n, d>> with d > 0 (the integer 0 the constructor stores  *)
(* is <<0, 1>>).  The numerator sums are kept in halves, so that the       *)
(* 0.5 weight of a hydrophilic residue stays an integer: a sum s of the    *)
(* code is 2*s here and the quotient is (2*s) / (2*total).                 *)
(***************************************************************************)
EXTENDS Integers, Sequences, FiniteSets, TLC

VARIABLES protein, slices, frames, cmp, best, sphere

vars == <<protein, slices, frames, cmp, best, sphere>>

---------------------------------------------------------------------------
(* Bounds of the model.                                                    *)

\* Largest number of exposed residues of a protein drawn from the pool.
MaxRes == 3
\* Public calls are made while the two thickness components are, together,
\* within MaxShift of the constructor's 7 (maximise_score itself thickens as
\* far as its loops go).
MaxShift == 1
\* Largest number of slices compared and reduced by max().
MaxSlices == 2
\* sample_surface(nb) is called with nb in -1..MaxNb, at most MaxCalls times
\* on one Sphere.
MaxNb == 4
MaxCalls == 3

---------------------------------------------------------------------------
(* Sphere.  The floats of sample_surface are kept in fixed point: a value  *)
(* v is the integer nearest below v * Scale.                               *)

Scale == 10000

\* math.pi
Pi == 31416

\* round(n / q) for n >= 0, q > 0.
Round(n, q) == (2 * n + q) \div (2 * q)

\* math.sqrt of the fixed-point value v: the greatest r with r * r <= v * Scale.
RECURSIVE SqrtBetween(_, _, _)
SqrtBetween(x, lo, hi) ==
    IF lo >= hi THEN lo
    ELSE LET mid == (lo + hi + 1) \div 2
         IN  IF mid * mid <= x THEN SqrtBetween(x, mid, hi) ELSE SqrtBetween(x, lo, mid - 1)

Sqrt(v) == SqrtBetween(v * Scale, 0, 46000)

\* math.sin and math.cos, by the sine series on [0, pi/2].
SinSeries(x) ==
    LET x2 == (x * x) \div Scale
        t3 == ((x * x2) \div Scale) \div 6
        t5 == ((t3 * x2) \div Scale) \div 20
        t7 == ((t5 * x2) \div Scale) \div 42
        t9 == ((t7 * x2) \div Scale) \div 72
    IN  x - t3 + t5 - t7 + t9

Sin(v) ==
    LET x == v % (2 * Pi)
    IN  IF x <= Pi \div 2 THEN SinSeries(x)
        ELSE IF x <= Pi THEN SinSeries(Pi - x)
        ELSE IF x <= Pi + Pi \div 2 THEN -SinSeries(x - Pi)
        ELSE -SinSeries(2 * Pi - x)

Cos(v) == Sin(v + Pi \div 2)

Point(x, y, z) == <<x, y, z>>

\* Sphere(radius); ncalls, nb, raised and ret are the calling side: the
\* number of sample_surface calls made, the argument of the last one, the
\* exception that left it ("None" when it returned) and the count it returned
\* (-1 when it raised or was never called).
Sphere_init(radius) ==
    [radius |-> radius, surf_pts |-> <<>>, ncalls |-> 0, nb |-> 1, raised |-> "None", ret |-> -1]

\* The points of band m at polar angle theta: n runs over 0..m_phi - 1 and
\* a point is kept when z >= 0.
RECURSIVE band_points(_, _, _, _)
band_points(radius, theta, m_phi, n) ==
    IF n >= m_phi THEN <<>>
    ELSE LET phi == (2 * Pi * n) \div m_phi
             x   == radius * ((Sin(theta) * Cos(phi)) \div Scale)
             y   == radius * ((Sin(theta) * Sin(phi)) \div Scale)
             z   == radius * Cos(theta)
         IN  (IF z >= 0 THEN <<Point(x, y, z)>> ELSE <<>>) \o band_points(radius, theta, m_phi, n + 1)

RECURSIVE sample_bands(_, _, _, _)
sample_bands(radius, m_theta, d_phi, m) ==
    IF m >= m_theta THEN <<>>
    ELSE LET theta == (Pi * (2 * m + 1)) \div (2 * m_theta)
             m_phi == Round((2 * Pi * Sin(theta)) \div Scale, d_phi)
         IN  band_points(radius, theta, m_phi, 0) \o sample_bands(radius, m_theta, d_phi, m + 1)

\* Variant: only a negative nb is refused; nb = 0 divides by zero.
sample_surface_refuses_negative(sph, nb) ==
    IF nb < 0
    THEN [sph EXCEPT !.ncalls = @ + 1, !.nb = nb, !.raised = "ValueError", !.ret = -1]
    ELSE IF nb = 0
    THEN [sph EXCEPT !.ncalls = @ + 1, !.nb = nb, !.raised = "ZeroDivisionError", !.ret = -1]
    ELSE LET a       == (4 * Pi * sph.radius * sph.radius) \div nb
             m_theta == Round(Pi, Sqrt(a))
             pts     == sph.surf_pts \o sample_bands(sph.radius, m_theta, (a * Scale) \div (Pi \div m_theta), 0)
         IN  [sph EXCEPT !.ncalls = @ + 1, !.nb = nb, !.raised = "None", !.surf_pts = pts, !.ret = Len(pts)]

\* sample_surface(nb): the Sphere it leaves.  With m_theta = 0 the division
\* pi / m_theta raises.
sample_surface_result(sph, nb) ==
    IF nb <= 0
    THEN [sph EXCEPT !.ncalls = @ + 1, !.nb = nb, !.raised = "ValueError", !.ret = -1]
    ELSE LET a       == (4 * Pi * sph.radius * sph.radius) \div nb
             m_theta == Round(Pi, Sqrt(a))
         IN  IF m_theta = 0
             THEN [sph EXCEPT !.ncalls = @ + 1, !.nb = nb, !.raised = "ZeroDivisionError", !.ret = -1]
             ELSE LET d_theta == Pi \div m_theta
                      d_phi   == (a * Scale) \div d_theta
                      pts     == sph.surf_pts \o sample_bands(sph.radius, m_theta, d_phi, 0)
                  IN  [sph EXCEPT !.ncalls = @ + 1, !.nb = nb, !.raised = "None",
                                  !.surf_pts = pts, !.ret = Len(pts)]

---------------------------------------------------------------------------
(* Residue                                                                 *)

hydrophobic == {"PHE", "GLY", "ILE", "LEU", "MET", "VAL", "TRP", "TYR"}

hydrophilic == {"ALA", "CYS", "ASP", "GLU", "HIS", "LYS", "ASN", "PRO", "GLN", "ARG", "SER", "THR"}

Residue(num, aa, p, asa) == [num |-> num, aa |-> aa, coord |-> p, asa |-> asa]

\* Variant: no ValueError, a code in neither set counts as hydrophilic.
is_hydrophobic_unknown_as_hydrophilic(res) == IF res.aa \in hydrophobic THEN "True" ELSE "False"

\* The three outcomes of is_hydrophobic(): "ValueError" (raised), "True", "False".
is_hydrophobic(res) ==
    IF res.aa \notin hydrophobic /\ res.aa \notin hydrophilic
    THEN "ValueError"
    ELSE IF res.aa \in hydrophobic THEN "True" ELSE "False"

---------------------------------------------------------------------------
(* Protein: the exposed residues, in sequence order, and the hydrophobic   *)
(* ones among them.                                                        *)

RECURSIVE find_exposed_hydrophobic_residues(_)
find_exposed_hydrophobic_residues(rs) ==
    IF rs = <<>> THEN <<>>
    ELSE LET rest == find_exposed_hydrophobic_residues(Tail(rs))
         IN  IF is_hydrophobic(Head(rs)) = "True" THEN <<Head(rs)>> \o rest ELSE rest

Protein(exposed) ==
    [residues_exposed |-> exposed,
     residues_exposed_hydrophobic |-> find_exposed_hydrophobic_residues(exposed)]

\* Residues the structure collaborator can deliver; "MSE" is a residue with a
\* C-alpha whose code is in neither reference set.
Pool ==
    << Residue(1, "LEU", <<3, 2, 5>>, 1),
       Residue(2, "SER", <<-2, -2, -10>>, 1),
       Residue(3, "LEU", <<4, 5, 8>>, 1),
       Residue(4, "SER", <<6, 2, 9>>, 2),
       Residue(5, "MSE", <<0, -1, -3>>, 1),
       Residue(6, "GLY", <<-5, -5, -8>>, 2) >>

RECURSIVE SubSeqOf(_, _)
SubSeqOf(seq, keep) ==
    IF seq = <<>> THEN <<>>
    ELSE (IF Head(seq).num \in keep THEN <<Head(seq)>> ELSE <<>>) \o SubSeqOf(Tail(seq), keep)

\* The scenario protein: 3 'LEU' at projection +5 and 3 'SER' at projection -10
\* along the z axis.
ScenarioResidues ==
    << Residue(1, "LEU", <<0, 0, 5>>, 1),
       Residue(2, "LEU", <<1, 0, 5>>, 1),
       Residue(3, "LEU", <<0, 1, 5>>, 1),
       Residue(4, "SER", <<0, 0, -10>>, 1),
       Residue(5, "SER", <<1, 0, -10>>, 1),
       Residue(6, "SER", <<0, 1, -10>>, 1) >>

Proteins ==
    { Protein(SubSeqOf(Pool, keep)) : keep \in {k \in SUBSET (1..Len(Pool)) : Cardinality(k) <= MaxRes} }
    \cup { Protein(ScenarioResidues) }

\* Candidate normal directions (end points of the Vectors) and centers.
Normals == { <<0, 0, 1>>, <<1, 1, 0>> }

Centers == { 0, 1 }

Methods == { "ASA", "simple", "other" }

---------------------------------------------------------------------------
(* Scores                                                                  *)

Abs(x) == IF x < 0 THEN -x ELSE x

RECURSIVE GCD(_, _)
GCD(a, b) == IF b = 0 THEN a ELSE GCD(b, a % b)

\* n / d for d > 0.
Quotient(n, d) == LET g == GCD(Abs(n), d) IN <<n \div g, d \div g>>

Zero == <<0, 1>>

score_lt(a, b) == a[1] * b[2] < b[1] * a[2]

score_gt(a, b) == score_lt(b, a)

score_le(a, b) == a[1] * b[2] <= b[1] * a[2]

score_ge(a, b) == score_le(b, a)

---------------------------------------------------------------------------
(* Slice                                                                   *)

Dot(n, p) == n[1] * p[1] + n[2] * p[2] + n[3] * p[3]

\* Variant: strict comparisons.
InSlice_exclusive(sl, res) ==
    LET d1 == sl.center - sl.thickness[0]
        d2 == sl.center + sl.thickness[1]
    IN  Dot(sl.normal, res.coord) > d1 /\ Dot(sl.normal, res.coord) < d2

\* Variant: the front plane at center - thickness[1].
InSlice_front_sign(sl, res) ==
    LET d1 == sl.center - sl.thickness[0]
        d2 == sl.center - sl.thickness[1]
    IN  Dot(sl.normal, res.coord) >= d1 /\ Dot(sl.normal, res.coord) <= d2

\* The membership test of find_residues for one residue.
InSlice(sl, res) ==
    LET d1 == sl.center - sl.thickness[0]
        d2 == sl.center + sl.thickness[1]
    IN  Dot(sl.normal, res.coord) >= d1 /\ Dot(sl.normal, res.coord) <= d2

RECURSIVE find_residues_loop(_, _)
find_residues_loop(sl, rs) ==
    IF rs = <<>> THEN <<>>
    ELSE (IF InSlice(sl, Head(rs)) THEN <<Head(rs)>> ELSE <<>>) \o find_residues_loop(sl, Tail(rs))

\* The slice after find_residues(); the call returns Len of its residues.
find_residues_result(sl, prot) == [sl EXCEPT !.residues = find_residues_loop(sl, prot.residues_exposed)]

\* Twice the asa_slice of the 'ASA' branch.
RECURSIVE asa_slice(_)
asa_slice(rs) ==
    IF rs = <<>> THEN 0
    ELSE LET h == is_hydrophobic(Head(rs))
         IN  (IF h = "True" THEN 2 * Head(rs).asa ELSE IF h = "False" THEN -Head(rs).asa ELSE 0)
             + asa_slice(Tail(rs))

RECURSIVE asa_total(_)
asa_total(rs) == IF rs = <<>> THEN 0 ELSE Head(rs).asa + asa_total(Tail(rs))

\* Twice the cpt_slice of the 'simple' branch.
RECURSIVE cpt_slice(_)
cpt_slice(rs) ==
    IF rs = <<>> THEN 0
    ELSE LET h == is_hydrophobic(Head(rs))
         IN  (IF h = "True" THEN 2 ELSE IF h = "False" THEN -1 ELSE 0) + cpt_slice(Tail(rs))

cpt_total(rs) == Len(rs)

\* Variant: no test of the method name.
compute_score_no_method_check(sl, prot, method) ==
    LET num == IF method = "ASA" THEN asa_slice(sl.residues) ELSE cpt_slice(sl.residues)
        tot == IF method = "ASA" THEN asa_total(prot.residues_exposed_hydrophobic)
               ELSE cpt_total(prot.residues_exposed_hydrophobic)
    IN  IF tot = 0 THEN [raised |-> "ZeroDivisionError", slice |-> sl]
        ELSE [raised |-> "None", slice |-> [sl EXCEPT !.score = Quotient(num, 2 * tot)]]

\* Variant: a division by 0 that stores its undefined quotient.
compute_score_nan(sl, prot, method) ==
    LET num == IF method = "ASA" THEN asa_slice(sl.residues) ELSE cpt_slice(sl.residues)
        tot == IF method = "ASA" THEN asa_total(prot.residues_exposed_hydrophobic)
               ELSE cpt_total(prot.residues_exposed_hydrophobic)
    IN  IF method /= "ASA" /\ method /= "simple" THEN [raised |-> "ValueError", slice |-> sl]
        ELSE IF tot = 0 THEN [raised |-> "None", slice |-> [sl EXCEPT !.score = <<num, 0>>]]
        ELSE [raised |-> "None", slice |-> [sl EXCEPT !.score = Quotient(num, 2 * tot)]]

\* Variant: the totals run over all exposed residues.
compute_score_total_over_exposed(sl, prot, method) ==
    LET num == IF method = "ASA" THEN asa_slice(sl.residues) ELSE cpt_slice(sl.residues)
        tot == IF method = "ASA" THEN asa_total(prot.residues_exposed) ELSE cpt_total(prot.residues_exposed)
    IN  IF method /= "ASA" /\ method /= "simple" THEN [raised |-> "ValueError", slice |-> sl]
        ELSE IF tot = 0 THEN [raised |-> "ZeroDivisionError", slice |-> sl]
        ELSE [raised |-> "None", slice |-> [sl EXCEPT !.score = Quotient(num, 2 * tot)]]

\* compute_score(method) on slice sl: the exception it raises ("None" when it
\* returns) and the slice it leaves.
compute_score_result(sl, prot, method) ==
    LET num == IF method = "ASA" THEN asa_slice(sl.residues) ELSE cpt_slice(sl.residues)
        tot == IF method = "ASA" THEN asa_total(prot.residues_exposed_hydrophobic)
               ELSE cpt_total(prot.residues_exposed_hydrophobic)
    IN  IF method /= "ASA" /\ method /= "simple" THEN [raised |-> "ValueError", slice |-> sl]
        ELSE IF tot = 0 THEN [raised |-> "ZeroDivisionError", slice |-> sl]
        ELSE [raised |-> "None", slice |-> [sl EXCEPT !.score = Quotient(num, 2 * tot)]]

\* Variant: no find_residues() after the thickness changed.
thicken_keeps_residues(sl, prot, increment, normal_direction) ==
    LET t  == IF normal_direction THEN [sl.thickness EXCEPT ![1] = @ + increment]
              ELSE [sl.thickness EXCEPT ![0] = @ + increment]
        s1 == [sl EXCEPT !.thickness = t]
        r  == compute_score_result(s1, prot, s1.score_method)
    IN  IF Len(s1.residues) /= 0
        THEN [raised |-> IF r.raised = "ValueError" THEN "None" ELSE r.raised, slice |-> r.slice]
        ELSE [raised |-> "None", slice |-> [s1 EXCEPT !.score = Zero]]

\* thicken(increment, normal_direction): the ValueError of compute_score is
\* caught and printed, any other exception leaves the call.
thicken_result(sl, prot, increment, normal_direction) ==
    LET t  == IF normal_direction THEN [sl.thickness EXCEPT ![1] = @ + increment]
              ELSE [sl.thickness EXCEPT ![0] = @ + increment]
        s1 == find_residues_result([sl EXCEPT !.thickness = t], prot)
        r  == compute_score_result(s1, prot, s1.score_method)
    IN  IF Len(s1.residues) /= 0
        THEN [raised |-> IF r.raised = "ValueError" THEN "None" ELSE r.raised, slice |-> r.slice]
        ELSE [raised |-> "None", slice |-> [s1 EXCEPT !.score = Zero]]

\* Slice(protein, center, normal, method).
Slice_init(prot, center, normal, method) ==
    LET s0 == [center |-> center, normal |-> normal, score_method |-> method,
               thickness |-> (0 :> 7 @@ 1 :> 7), residues |-> <<>>, score |-> Zero]
        s1 == find_residues_result(s0, prot)
        r  == compute_score_result(s1, prot, s1.score_method)
    IN  IF Len(s1.residues) /= 0
        THEN [raised |-> IF r.raised = "ValueError" THEN "None" ELSE r.raised, slice |-> r.slice]
        ELSE [raised |-> "None", slice |-> s1]

---------------------------------------------------------------------------
(* Ordering of slices and the max(slices) of the search loop.              *)

Slice_lt(self, other) == IF score_lt(self.score, other.score) THEN TRUE ELSE FALSE

Slice_gt(self, other) == IF score_gt(self.score, other.score) THEN TRUE ELSE FALSE

Slice_le(self, other) == IF score_le(self.score, other.score) THEN TRUE ELSE FALSE

Slice_ge(self, other) == IF score_ge(self.score, other.score) THEN TRUE ELSE FALSE

Compare(op, self, other) ==
    CASE op = "lt" -> Slice_lt(self, other)
      [] op = "gt" -> Slice_gt(self, other)
      [] op = "le" -> Slice_le(self, other)
      [] op = "ge" -> Slice_ge(self, other)

\* max() over seq[1..k]: the first item is kept until a later one is greater.
RECURSIVE max_upto(_, _)
max_upto(seq, k) ==
    IF k = 1 THEN 1
    ELSE LET m == max_upto(seq, k - 1) IN IF Slice_gt(seq[k], seq[m]) THEN k ELSE m

\* Variant: the first item is returned.
max_slices_keeps_first(seq) == 1

\* The index of the slice max(slices) returns.
max_slices(seq) == max_upto(seq, Len(seq))

---------------------------------------------------------------------------
(* maximise_score: the pure parts of its loops.                            *)

\* Variant: the index (from 0) of the last greatest element.
argmax_last(scores) ==
    (CHOOSE k \in 1..Len(scores) :
        /\ \A j \in 1..Len(scores) : score_le(scores[j], scores[k])
        /\ \A j \in (k + 1)..Len(scores) : score_lt(scores[j], scores[k])) - 1

\* np.argmax: the index (from 0) of the first greatest element.
argmax(scores) ==
    (CHOOSE k \in 1..Len(scores) :
        /\ \A j \in 1..Len(scores) : score_le(scores[j], scores[k])
        /\ \A j \in 1..(k - 1) : score_lt(scores[j], scores[k])) - 1

\* scores[-5:].count(scores[-1])
count_last5(scores) ==
    Cardinality({k \in 1..Len(scores) : k > Len(scores) - 5 /\ scores[k] = scores[Len(scores)]})

\* Variant: the count is compared with 6.
plateau_up_six(cpt, scores) == cpt >= 5 /\ count_last5(scores) = 6

\* The break test of the front loop: cpt >= 5 and count == 5.
plateau_up(cpt, scores) == cpt >= 5 /\ count_last5(scores) = 5

\* Variant: count == 5 alone.
plateau_down_any_cpt(cpt, scores) == count_last5(scores) = 5

\* The break test of the back loop: (cpt >= 5 and count) == 5, where the
\* conjunction is False, which equals 0, when cpt < 5.
plateau_down(cpt, scores) == (IF cpt >= 5 THEN count_last5(scores) ELSE 0) = 5

\* Variant: len(scores[best_index:]) + 1
backtrack_steps_long(scores) == Len(scores) - argmax(scores) + 1

\* Variant: len(scores[best_index + 1:])
backtrack_steps_short(scores) == Len(scores) - argmax(scores) - 1

\* len(scores[best_index:])
backtrack_steps(scores) == Len(scores) - argmax(scores)

\* The while loop of one side from its head, with the scores recorded so far:
\* the slice, the recorded scores and the exception when thicken() raised.
RECURSIVE maximise_score_loop(_, _, _, _, _)
maximise_score_loop(sl, prot, scores, cpt, normal_direction) ==
    IF sl.score = Zero
    THEN [raised |-> "None", slice |-> sl, scores |-> scores]
    ELSE LET recorded == Append(scores, sl.score)
             r        == thicken_result(sl, prot, 1, normal_direction)
             break    == IF normal_direction THEN plateau_up(cpt + 1, recorded)
                                             ELSE plateau_down(cpt + 1, recorded)
         IN  IF r.raised /= "None" \/ break
             THEN [raised |-> r.raised, slice |-> r.slice, scores |-> recorded]
             ELSE maximise_score_loop(r.slice, prot, recorded, cpt + 1, normal_direction)

\* One side of maximise_score: first thickening, loop, backtrack.
maximise_score_side(sl, prot, base_score, normal_direction) ==
    LET first == thicken_result(sl, prot, 1, normal_direction)
        loop  == maximise_score_loop(first.slice, prot, <<base_score>>, 0, normal_direction)
    IN  IF first.raised /= "None" THEN first
        ELSE IF loop.raised /= "None" THEN [raised |-> loop.raised, slice |-> loop.slice]
        ELSE thicken_result(loop.slice, prot, -1 * backtrack_steps(loop.scores), normal_direction)

\* maximise_score() run from its first line to its end on slice sl alone.
maximise_score_result(sl, prot) ==
    LET up == maximise_score_side(sl, prot, sl.score, TRUE)
    IN  IF up.raised /= "None" THEN up
        ELSE maximise_score_side(up.slice, prot, sl.score, FALSE)

---------------------------------------------------------------------------
(* State.  slices[i] are the Slice objects over the one protein; frames[i] *)
(* is the calling side of slice i: pc is the position inside               *)
(* maximise_score ("idle" between public calls, "dead" when the            *)
(* constructor raised and no object exists); base_score, new_scores_up,    *)
(* new_scores_down and cpt are maximise_score's locals; call and arg name  *)
(* the last public call that ended and its method argument, raised the     *)
(* exception that left it ("None" when it returned), ret the count it      *)
(* returned (-1 when it returned None) and ncalls the number of public     *)
(* calls ended since construction (2 stands for two or more).  While       *)
(* maximise_score runs, call names it and raised, ret are "None", -1.      *)
(* cmp is the last ordering comparison made and best the index max(slices) *)
(* returned (0: max was not the last ordering call).                       *)

NoLocals == [base_score |-> Zero, new_scores_up |-> <<>>, new_scores_down |-> <<>>, cpt |-> 0]

Frame(pc, call, arg, raised, ret, ncalls, locals) ==
    [pc |-> pc, call |-> call, arg |-> arg, raised |-> raised, ret |-> ret, ncalls |-> ncalls,
     base_score |-> locals.base_score, new_scores_up |-> locals.new_scores_up,
     new_scores_down |-> locals.new_scores_down, cpt |-> locals.cpt]

\* The frame after a public call on the slice of frame f has ended.
Ended(f, call, arg, raised, ret) ==
    Frame("idle", call, arg, raised, ret, IF f.ncalls < 2 THEN f.ncalls + 1 ELSE 2, NoLocals)

NoCmp == [op |-> "none", a |-> 0, b |-> 0, result |-> FALSE]

ValidMethods == { "ASA", "simple" }

\* One Slice is constructed over a protein; a constructor that raises leaves
\* no object to call.
Init ==
    /\ protein \in Proteins
    /\ \E center \in Centers, normal \in Normals, method \in Methods :
          LET r == Slice_init(protein, center, normal, method)
          IN  /\ slices = <<r.slice>>
              /\ frames = <<Frame(IF r.raised = "None" THEN "idle" ELSE "dead",
                                  "__init__", method, r.raised, -1, 0, NoLocals)>>
    /\ cmp = NoCmp
    /\ best = 0
    /\ sphere = Sphere_init(1)

---------------------------------------------------------------------------
(* Public calls on an idle slice.                                          *)

find_residues(i) ==
    /\ frames[i].pc = "idle"
    /\ LET s == find_residues_result(slices[i], protein)
       IN  /\ slices' = [slices EXCEPT ![i] = s]
           /\ frames' = [frames EXCEPT ![i] = Ended(@, "find_residues", "", "None", Len(s.residues))]
    /\ UNCHANGED <<protein, cmp, best, sphere>>

compute_score(i, method) ==
    /\ frames[i].pc = "idle"
    /\ LET r == compute_score_result(slices[i], protein, method)
       IN  /\ slices' = [slices EXCEPT ![i] = r.slice]
           /\ frames' = [frames EXCEPT ![i] = Ended(@, "compute_score", method, r.raised, -1)]
    /\ UNCHANGED <<protein, cmp, best, sphere>>

Increments == { -2, -1, 1, 2 }

InBounds(sl) == Abs(sl.thickness[0] - 7) + Abs(sl.thickness[1] - 7) <= MaxShift

\* Variant: one thickness list shared by every Slice.
thicken_shared_thickness(i, increment, normal_direction) ==
    /\ frames[i].pc = "idle"
    /\ LET r == thicken_result(slices[i], protein, increment, normal_direction)
       IN  /\ InBounds(r.slice)
           /\ slices' = [k \in DOMAIN slices |->
                            IF k = i THEN r.slice ELSE [slices[k] EXCEPT !.thickness = r.slice.thickness]]
           /\ frames' = [frames EXCEPT ![i] = Ended(@, "thicken", "", r.raised, -1)]
    /\ UNCHANGED <<protein, cmp, best, sphere>>

thicken(i, increment, normal_direction) ==
    /\ frames[i].pc = "idle"
    /\ LET r == thicken_result(slices[i], protein, increment, normal_direction)
       IN  /\ InBounds(r.slice)
           /\ slices' = [slices EXCEPT ![i] = r.slice]
           /\ frames' = [frames EXCEPT ![i] = Ended(@, "thicken", "", r.raised, -1)]
    /\ UNCHANGED <<protein, cmp, best, sphere>>

---------------------------------------------------------------------------
(* maximise_score, one thicken() call per step.  An exception of thicken() *)
(* leaves maximise_score at once.                                          *)

\* The frame after a thicken() inside maximise_score: at position pc with
\* the given locals when it returned, out of the call when it raised.
Continue(f, r, pc, locals) ==
    IF r.raised = "None"
    THEN Frame(pc, "maximise_score", "", "None", -1, f.ncalls, locals)
    ELSE Ended(f, "maximise_score", "", r.raised, -1)

\* Lines 873-879: base score, first front thickening.
maximise_score_start(i) ==
    /\ frames[i].pc = "idle"
    /\ InBounds(slices[i])
    /\ LET r == thicken_result(slices[i], protein, 1, TRUE)
           l == [NoLocals EXCEPT !.base_score = slices[i].score, !.new_scores_up = <<slices[i].score>>]
       IN  /\ slices' = [slices EXCEPT ![i] = r.slice]
           /\ frames' = [frames EXCEPT ![i] = Continue(@, r, "up_loop", l)]
    /\ UNCHANGED <<protein, cmp, best, sphere>>

\* Lines 880-886: one test of the front loop and, when it holds, one pass.
maximise_score_up(i) ==
    /\ frames[i].pc = "up_loop"
    /\ IF slices[i].score /= Zero
       THEN LET f == frames[i]
                r == thicken_result(slices[i], protein, 1, TRUE)
                l == [base_score |-> f.base_score, new_scores_down |-> f.new_scores_down,
                      new_scores_up |-> Append(f.new_scores_up, slices[i].score), cpt |-> f.cpt + 1]
            IN  /\ slices' = [slices EXCEPT ![i] = r.slice]
                /\ frames' = [frames EXCEPT ![i] =
                       Continue(@, r, IF plateau_up(l.cpt, l.new_scores_up) THEN "up_backtrack" ELSE "up_loop", l)]
       ELSE /\ frames' = [frames EXCEPT ![i].pc = "up_backtrack"]
            /\ UNCHANGED slices
    /\ UNCHANGED <<protein, cmp, best, sphere>>

\* Lines 888-891: back to the best front thickness.
maximise_score_up_backtrack(i) ==
    /\ frames[i].pc = "up_backtrack"
    /\ LET f == frames[i]
           r == thicken_result(slices[i], protein, -1 * backtrack_steps(f.new_scores_up), TRUE)
           l == [base_score |-> f.base_score, new_scores_down |-> f.new_scores_down,
                 new_scores_up |-> f.new_scores_up, cpt |-> f.cpt]
       IN  /\ slices' = [slices EXCEPT ![i] = r.slice]
           /\ frames' = [frames EXCEPT ![i] = Continue(@, r, "down_start", l)]
    /\ UNCHANGED <<protein, cmp, best, sphere>>

\* Lines 894-896: first back thickening.
maximise_score_down_start(i) ==
    /\ frames[i].pc = "down_start"
    /\ LET f == frames[i]
           r == thicken_result(slices[i], protein, 1, FALSE)
           l == [base_score |-> f.base_score, new_scores_down |-> <<f.base_score>>,
                 new_scores_up |-> f.new_scores_up, cpt |-> 0]
       IN  /\ slices' = [slices EXCEPT ![i] = r.slice]
           /\ frames' = [frames EXCEPT ![i] = Continue(@, r, "down_loop", l)]
    /\ UNCHANGED <<protein, cmp, best, sphere>>

\* Lines 897-903: one test of the back loop and, when it holds, one pass.
maximise_score_down(i) ==
    /\ frames[i].pc = "down_loop"
    /\ IF slices[i].score /= Zero
       THEN LET f == frames[i]
                r == thicken_result(slices[i], protein, 1, FALSE)
                l == [base_score |-> f.base_score, new_scores_up |-> f.new_scores_up,
                      new_scores_down |-> Append(f.new_scores_down, slices[i].score), cpt |-> f.cpt + 1]
            IN  /\ slices' = [slices EXCEPT ![i] = r.slice]
                /\ frames' = [frames EXCEPT ![i] =
                       Continue(@, r, IF plateau_down(l.cpt, l.new_scores_down) THEN "down_backtrack" ELSE "down_loop", l)]
       ELSE /\ frames' = [frames EXCEPT ![i].pc = "down_backtrack"]
            /\ UNCHANGED slices
    /\ UNCHANGED <<protein, cmp, best, sphere>>

\* Lines 904-906: back to the best back thickness; maximise_score returns.
maximise_score_down_backtrack(i) ==
    /\ frames[i].pc = "down_backtrack"
    /\ LET f == frames[i]
           r == thicken_result(slices[i], protein, -1 * backtrack_steps(f.new_scores_down), FALSE)
       IN  /\ slices' = [slices EXCEPT ![i] = r.slice]
           /\ frames' = [frames EXCEPT ![i] = Ended(@, "maximise_score", "", r.raised, -1)]
    /\ UNCHANGED <<protein, cmp, best, sphere>>

Next ==
    \/ \E i \in DOMAIN slices : find_residues(i)
    \/ \E i \in DOMAIN slices, method \in Methods : compute_score(i, method)
    \/ \E i \in DOMAIN slices, increment \in Increments, normal_direction \in BOOLEAN : thicken(i, increment, normal_direction)
    \/ \E i \in DOMAIN slices : maximise_score_start(i)
    \/ \E i \in DOMAIN slices : maximise_score_up(i)
    \/ \E i \in DOMAIN slices : maximise_score_up_backtrack(i)
    \/ \E i \in DOMAIN slices : maximise_score_down_start(i)
    \/ \E i \in DOMAIN slices : maximise_score_down(i)
    \/ \E i \in DOMAIN slices : maximise_score_down_backtrack(i)

Spec == Init /\ [][Next]_vars

---------------------------------------------------------------------------
(* The search loop's collection: slices built at center 0 or 1 under one   *)
(* scoring method, compared and reduced by max().                          *)

Ops == { "lt", "gt", "le", "ge" }

\* The slices the constructor builds without raising.
Built(prot, method) ==
    { Slice_init(prot, cn[1], cn[2], method).slice :
        cn \in { c \in Centers \X Normals : Slice_init(prot, c[1], c[2], method).raised = "None" } }

InitOrd ==
    /\ protein \in Proteins
    /\ \E method \in ValidMethods, n \in 1..MaxSlices :
          /\ slices \in [1..n -> Built(protein, method)]
          /\ frames = [k \in 1..n |-> Frame("idle", "__init__", method, "None", -1, 0, NoLocals)]
    /\ cmp = NoCmp
    /\ best = 0
    /\ sphere = Sphere_init(1)

compare(op, i, j) ==
    /\ cmp' = [op |-> op, a |-> i, b |-> j, result |-> Compare(op, slices[i], slices[j])]
    /\ best' = 0
    /\ UNCHANGED <<protein, slices, frames, sphere>>

max(seq) ==
    /\ Len(seq) > 0
    /\ best' = max_slices(seq)
    /\ cmp' = NoCmp
    /\ UNCHANGED <<protein, slices, frames, sphere>>

NextOrd ==
    \/ \E op \in Ops, i \in DOMAIN slices, j \in DOMAIN slices : compare(op, i, j)
    \/ max(slices)

SpecOrd == InitOrd /\ [][NextOrd]_vars

---------------------------------------------------------------------------
(* Two directions over one protein: two slices built under one scoring     *)
(* method along different normals, each given one public call, the steps   *)
(* of the two calls interleaved in any order.                              *)

InitPair ==
    /\ protein \in Proteins
    /\ \E method \in Methods :
          \E a \in Built(protein, method), b \in Built(protein, method) :
             /\ a.normal = <<0, 0, 1>>
             /\ b.normal /= a.normal
             /\ slices = <<a, b>>
             /\ frames = [k \in 1..2 |-> Frame("idle", "__init__", method, "None", -1, 0, NoLocals)]
    /\ cmp = NoCmp
    /\ best = 0
    /\ sphere = Sphere_init(1)

Fresh(i) == frames[i].ncalls = 0

NextPair ==
    \/ \E i \in DOMAIN slices : Fresh(i) /\ find_residues(i)
    \/ \E i \in DOMAIN slices, method \in Methods : Fresh(i) /\ compute_score(i, method)
    \/ \E i \in DOMAIN slices, increment \in Increments, normal_direction \in BOOLEAN : Fresh(i) /\ thicken(i, increment, normal_direction)
    \/ \E i \in DOMAIN slices : Fresh(i) /\ maximise_score_start(i)
    \/ \E i \in DOMAIN slices : maximise_score_up(i)
    \/ \E i \in DOMAIN slices : maximise_score_up_backtrack(i)
    \/ \E i \in DOMAIN slices : maximise_score_down_start(i)
    \/ \E i \in DOMAIN slices : maximise_score_down(i)
    \/ \E i \in DOMAIN slices : maximise_score_down_backtrack(i)

SpecPair == InitPair /\ [][NextPair]_vars

---------------------------------------------------------------------------
(* One Sphere of radius 1, as sample_space builds it, sampled repeatedly.  *)

InitSphere ==
    /\ protein = Protein(<<>>)
    /\ slices = <<>>
    /\ frames = <<>>
    /\ cmp = NoCmp
    /\ best = 0
    /\ sphere = Sphere_init(1)

sample_surface(nb) ==
    /\ sphere.ncalls < MaxCalls
    /\ sphere' = sample_surface_result(sphere, nb)
    /\ UNCHANGED <<protein, slices, frames, cmp, best>>

NextSphere == \E nb \in -1..MaxNb : sample_surface(nb)

SpecSphere == InitSphere /\ [][NextSphere]_vars

---------------------------------------------------------------------------
(* Vocabulary of the properties, stated on sets of residues and on the     *)
(* fractions themselves.                                                   *)

ResidueSet(seq) == { seq[k] : k \in DOMAIN seq }

Projection(normal, res) ==
    normal[1] * res.coord[1] + normal[2] * res.coord[2] + normal[3] * res.coord[3]

\* The exposed residues p with center - back <= normal.p <= center + front.
MemberSet(sl, prot) ==
    { res \in ResidueSet(prot.residues_exposed) :
        /\ sl.center - sl.thickness[0] <= Projection(sl.normal, res)
        /\ Projection(sl.normal, res) <= sl.center + sl.thickness[1] }

Weight(method, res) == IF method = "ASA" THEN res.asa ELSE 1

RECURSIVE TotalWeight(_, _)
TotalWeight(method, S) ==
    IF S = {} THEN 0
    ELSE LET res == CHOOSE r \in S : TRUE IN Weight(method, res) + TotalWeight(method, S \ {res})

HydrophobicWeight(method, S) == TotalWeight(method, { res \in S : res.aa \in hydrophobic })

HydrophilicWeight(method, S) == TotalWeight(method, { res \in S : res.aa \in hydrophilic })

\* T of the protein under a method.
Denominator(method, prot) == HydrophobicWeight(method, ResidueSet(prot.residues_exposed))

\* score = (H - 0.5 P) / T for the residues S.
ScoreIs(score, method, S, prot) ==
    /\ Denominator(method, prot) > 0
    /\ score[2] > 0
    /\ 2 * score[1] * Denominator(method, prot)
          = (2 * HydrophobicWeight(method, S) - HydrophilicWeight(method, S)) * score[2]

Less(a, b) == a[1] * b[2] < b[1] * a[2]

\* The score the constructor gave slice sl.
ConstructedScore(sl, prot) == Slice_init(prot, sl.center, sl.normal, sl.score_method).slice.score

Idle(i) == frames[i].pc = "idle"

---------------------------------------------------------------------------
(* Properties.                                                             *)

\* C1: when maximise_score() returns on a freshly constructed Slice with a
\* valid method over a protein with an exposed hydrophobic residue, the stored
\* score is not lower than the score the slice had just before the call.
C1_MaximiseNeverLowersScore ==
    [][\A i \in DOMAIN slices :
          (/\ frames[i].ncalls = 0
           /\ frames[i].pc = "down_backtrack"
           /\ frames'[i].pc = "idle"
           /\ frames'[i].raised = "None"
           /\ slices[i].score_method \in ValidMethods
           /\ Denominator(slices[i].score_method, protein) > 0)
          => /\ frames[i].base_score = ConstructedScore(slices[i], protein)
             /\ ~Less(slices'[i].score, frames[i].base_score)]_vars

\* A first call of maximise_score() returned with a score above the constructor's.
C1_Witness ==
    \E i \in DOMAIN slices :
        /\ Idle(i) /\ frames[i].call = "maximise_score" /\ frames[i].ncalls = 1
        /\ frames[i].raised = "None"
        /\ slices[i].score_method \in ValidMethods
        /\ Less(ConstructedScore(slices[i], protein), slices[i].score)

\* C2: after construction and after every thicken() or maximise_score(), the
\* stored residues are exactly the members for the current (normal, center,
\* thickness) and the stored score is their score under the slice's method,
\* 0 when there are none.
Consistent(sl, prot) ==
    /\ ResidueSet(sl.residues) = MemberSet(sl, prot)
    /\ Len(sl.residues) = Cardinality(MemberSet(sl, prot))
    /\ Len(sl.residues) = 0 => sl.score = Zero
    /\ (/\ Len(sl.residues) > 0
        /\ sl.score_method \in ValidMethods
        /\ Denominator(sl.score_method, prot) > 0)
       => ScoreIs(sl.score, sl.score_method, ResidueSet(sl.residues), prot)

C3_FindResiduesMembership ==
    \A i \in DOMAIN slices :
        frames[i].call = "find_residues"
        => /\ ResidueSet(slices[i].residues) = MemberSet(slices[i], protein)
           /\ Len(slices[i].residues) = Cardinality(MemberSet(slices[i], protein))
           /\ frames[i].ret = Cardinality(MemberSet(slices[i], protein))

\* The scenario: 3 residues at +5, 3 at -10, center 0, thickness (7, 7).
C3_Witness ==
    \E i \in DOMAIN slices :
        /\ frames[i].call = "find_residues"
        /\ protein = Protein(ScenarioResidues)
        /\ slices[i].normal = <<0, 0, 1>> /\ slices[i].center = 0
        /\ slices[i].thickness[0] = 7 /\ slices[i].thickness[1] = 7
        /\ frames[i].ret = 3
        /\ slices[i].residues = SubSeq(ScenarioResidues, 1, 3)

C5_ThickeningMonotonic ==
    [][\A i \in DOMAIN slices :
          (\A k \in {0, 1} : slices'[i].thickness[k] >= slices[i].thickness[k])
          => /\ ResidueSet(slices[i].residues) \subseteq ResidueSet(slices'[i].residues)
             /\ Len(slices'[i].residues) >= Len(slices[i].residues)]_vars

\* One thicken(1, True) on a fresh slice added a residue.
C5_Witness ==
    \E i \in DOMAIN slices :
        /\ Idle(i) /\ frames[i].call = "thicken" /\ frames[i].ncalls = 1
        /\ slices[i].thickness[0] = 7 /\ slices[i].thickness[1] = 8
        /\ Len(slices[i].residues) > Len(Slice_init(protein, slices[i].center, slices[i].normal,
                                                    slices[i].score_method).slice.residues)

\* C6: a slice without residues has score exactly 0 under either method, on
\* every path that sets the score (construction, thicken, compute_score called
\* on the empty slice), and no error is raised.
C6_EmptySliceScoresZero ==
    \A i \in DOMAIN slices :
        (/\ Idle(i)
         /\ Len(slices[i].residues) = 0
         /\ \/ frames[i].call \in {"__init__", "thicken"}
            \/ frames[i].call = "compute_score" /\ frames[i].arg \in ValidMethods)
        => slices[i].score = Zero /\ frames[i].raised = "None"

\* C7: compute_score with a method name other than 'ASA' and 'simple' on a
\* slice with residues raises ValueError and leaves score, residues and
\* thickness as they were.
C7_InvalidMethodRaisesUnchanged ==
    [][\A i \in DOMAIN slices :
          (/\ Idle(i)
           /\ frames'[i].call = "compute_score"
           /\ frames'[i].arg \notin ValidMethods
           /\ Len(slices[i].residues) > 0)
          => /\ frames'[i].raised = "ValueError"
             /\ slices'[i].score = slices[i].score
             /\ slices'[i].residues = slices[i].residues
             /\ slices'[i].thickness = slices[i].thickness]_vars

\* compute_score('other') raised on a slice that keeps residues and a score.
C7_Witness ==
    \E i \in DOMAIN slices :
        /\ frames[i].call = "compute_score" /\ frames[i].arg = "other"
        /\ frames[i].raised = "ValueError"
        /\ Len(slices[i].residues) > 0
        /\ slices[i].score /= Zero

\* C8: over a protein without exposed hydrophobic residue, scoring a slice
\* with residues raises an error and stores no score; a slice without
\* residues gets score 0 from the constructor and from thicken, without error.
NoHydrophobic(prot) == \A res \in ResidueSet(prot.residues_exposed) : res.aa \notin hydrophobic

Scored(i) ==
    \/ frames[i].call \in {"__init__", "thicken", "maximise_score"} /\ slices[i].score_method \in ValidMethods
    \/ frames[i].call = "compute_score" /\ frames[i].arg \in ValidMethods

Known(res) == res.aa \in hydrophobic \/ res.aa \in hydrophilic

KnownOnly(sl) == [sl EXCEPT !.residues = SelectSeq(sl.residues, Known)]

C9_UnknownResidueSkipped ==
    \A i \in DOMAIN slices :
        (/\ frames[i].call = "compute_score" /\ frames[i].arg \in ValidMethods
         /\ \E res \in ResidueSet(slices[i].residues) : ~Known(res))
        => /\ frames[i].raised /= "ValueError"
           /\ Denominator(frames[i].arg, protein) > 0
              => /\ frames[i].raised = "None"
                 /\ slices[i].score = compute_score_result(KnownOnly(slices[i]), protein, frames[i].arg).slice.score
                 /\ ScoreIs(slices[i].score, frames[i].arg, ResidueSet(KnownOnly(slices[i]).residues), protein)

\* compute_score scored a slice holding an unclassifiable residue and others.
C9_Witness ==
    \E i \in DOMAIN slices :
        /\ frames[i].call = "compute_score" /\ frames[i].arg \in ValidMethods
        /\ frames[i].raised = "None"
        /\ \E res \in ResidueSet(slices[i].residues) : ~Known(res)
        /\ \E res \in ResidueSet(slices[i].residues) : res.aa \in hydrophilic
        /\ slices[i].score /= Zero

\* C10: <, >, <=, >= on two slices give the comparison of their scores, and
\* max over the collection returns a slice whose score no slice exceeds.
OnScores(op, a, b) ==
    CASE op = "lt" -> Less(a, b)
      [] op = "gt" -> Less(b, a)
      [] op = "le" -> ~Less(b, a)
      [] op = "ge" -> ~Less(a, b)

C10_OrderedByScore ==
    /\ cmp.op /= "none" => cmp.result = OnScores(cmp.op, slices[cmp.a].score, slices[cmp.b].score)
    /\ best /= 0 => /\ best \in DOMAIN slices
                    /\ \A j \in DOMAIN slices : ~Less(slices[best].score, slices[j].score)

\* max returned the second slice, whose score is above the first's.
C10_Witness ==
    /\ best = 2
    /\ Less(slices[1].score, slices[2].score)

\* C11: sample_surface(nb) with nb <= 0 raises ValueError and leaves
\* surf_pts as it was.
C11_NonPositiveCountRefused ==
    [][(sphere'.ncalls = sphere.ncalls + 1 /\ sphere'.nb <= 0)
       => /\ sphere'.raised = "ValueError"
          /\ sphere'.ret = -1
          /\ sphere'.surf_pts = sphere.surf_pts]_vars

\* A refused call on a Sphere that already holds sampled points.
C11_Witness ==
    /\ sphere.ncalls > 1
    /\ sphere.nb = 0
    /\ sphere.raised = "ValueError"
    /\ Len(sphere.surf_pts) > 0

\* C12: in maximise_score on a freshly constructed slice, the first entry
\* recorded for the back-side search is the score the slice has once the front
\* side has been optimised.
C12_BackSearchStartsFromFrontScore ==
    [][\A i \in DOMAIN slices :
          (/\ frames[i].ncalls = 0
           /\ frames[i].pc = "down_start"
           /\ frames'[i].pc = "down_loop")
          => frames'[i].new_scores_down[1] = slices[i].score]_vars

\* The number of thickening steps after which the greatest recorded score
\* was first recorded: 0 for the first entry.
StepsToFirstMax(scores) ==
    CHOOSE k \in 0..(Len(scores) - 1) :
        /\ \A j \in 1..Len(scores) : ~Less(scores[k + 1], scores[j])
        /\ \A j \in 1..k : Less(scores[j], scores[k + 1])

\* C13: in maximise_score on a freshly constructed slice, which starts at
\* thickness (7, 7), the backtracking step of each side leaves that side's
\* thickness at 7 plus the number of steps at which the greatest recorded
\* score was first recorded, leaves the other side alone, and leaves residues
\* and score recomputed for that thickness: after a step that was recorded,
\* the score is that greatest recorded score.
C13_BacktrackToBestThickness ==
    [][\A i \in DOMAIN slices :
          /\ (/\ frames[i].ncalls = 0
              /\ frames[i].pc = "up_backtrack"
              /\ frames'[i].pc = "down_start")
             => LET k == StepsToFirstMax(frames[i].new_scores_up)
                IN  /\ slices'[i].thickness[1] = 7 + k
                    /\ slices'[i].thickness[0] = 7
                    /\ Consistent(slices'[i], protein)
                    /\ slices'[i].score = frames[i].new_scores_up[k + 1]
          /\ (/\ frames[i].ncalls = 0
              /\ frames[i].pc = "down_backtrack"
              /\ frames'[i].pc = "idle"
              /\ frames'[i].raised = "None")
             => LET k == StepsToFirstMax(frames[i].new_scores_down)
                IN  /\ slices'[i].thickness[0] = 7 + k
                    /\ slices'[i].thickness[1] = slices[i].thickness[1]
                    /\ Consistent(slices'[i], protein)
                    /\ k > 0 => slices'[i].score = frames[i].new_scores_down[k + 1]]_vars

\* The front side has been backtracked from a loop that ran to the plateau,
\* to a best thickness that is neither the first nor the last explored.
C13_Witness ==
    \E i \in DOMAIN slices :
        /\ frames[i].ncalls = 0
        /\ frames[i].pc = "down_start"
        /\ Len(frames[i].new_scores_up) >= 6
        /\ StepsToFirstMax(frames[i].new_scores_up) = 1
        /\ slices[i].thickness[1] = 8
        /\ slices[i].score = frames[i].new_scores_up[2]

\* At least five steps have been recorded after the first entry and the last
\* five recorded scores are identical.
FiveIdentical(scores) ==
    /\ Len(scores) - 1 >= 5
    /\ \A k \in (Len(scores) - 4)..Len(scores) : scores[k] = scores[Len(scores)]

\* One test of the loop of one side (side 1 is the front, 0 the back), from
\* position loop with recorded scores before and after, leaving to position
\* backtrack: with score 0 the loop is left and nothing is extended or
\* recorded; otherwise the score is recorded, the side grows by one, and the
\* loop is left exactly when five identical scores have been recorded.
StopRule(i, side, loop, backtrack, before, after) ==
    frames[i].pc = loop
    => IF slices[i].score = Zero
       THEN /\ frames'[i].pc = backtrack
            /\ slices'[i] = slices[i]
            /\ after = before
       ELSE frames'[i].raised = "None"
            => /\ after = Append(before, slices[i].score)
               /\ slices'[i].thickness[side] = slices[i].thickness[side] + 1
               /\ slices'[i].thickness[1 - side] = slices[i].thickness[1 - side]
               /\ frames'[i].pc = IF FiveIdentical(after) THEN backtrack ELSE loop

\* C14: the front loop and the back loop of maximise_score stop by the same
\* rule: extension by one continues until the score is 0 after a step or five
\* identical scores have been recorded over at least five steps, and stops at
\* the first step where one of the two holds.
C14_SameStopRule ==
    [][\A i \in DOMAIN slices :
          /\ StopRule(i, 1, "up_loop", "up_backtrack", frames[i].new_scores_up, frames'[i].new_scores_up)
          /\ StopRule(i, 0, "down_loop", "down_backtrack", frames[i].new_scores_down, frames'[i].new_scores_down)]_vars

\* The front loop was left on score 0 after fewer than five steps and the
\* back loop on five identical scores.
C14_Witness ==
    \E i \in DOMAIN slices :
        /\ frames[i].pc = "down_backtrack"
        /\ slices[i].score /= Zero
        /\ FiveIdentical(frames[i].new_scores_down)
        /\ Len(frames[i].new_scores_up) \in 2..5

\* C15: inside the extension loops of maximise_score on a freshly
\* constructed slice with a valid method, a slice that holds at least one
\* residue after a thickening step has a non-zero score.
C15_ZeroScoreOnlyWhenEmpty ==
    \A i \in DOMAIN slices :
        (/\ frames[i].ncalls = 0
         /\ frames[i].pc \in { "up_loop", "down_loop" }
         /\ slices[i].score_method \in ValidMethods
         /\ Len(slices[i].residues) > 0)
        => slices[i].score /= Zero

\* Slice i is inside a call of maximise_score.
InMaximise(i) == frames[i].pc \in { "up_loop", "up_backtrack", "down_start", "down_loop", "down_backtrack" }

\* The exposed residues that thickening side (1 the front, 0 the back) of
\* slice sl can still bring in.
Beyond(sl, prot, side) ==
    { res \in ResidueSet(prot.residues_exposed) :
        IF side = 1 THEN Projection(sl.normal, res) > sl.center + sl.thickness[1]
                    ELSE Projection(sl.normal, res) < sl.center - sl.thickness[0] }

\* How many of the last recorded scores equal score, up to 6.
Trailing(scores, score) ==
    CHOOSE k \in 0..6 :
        /\ k <= Len(scores)
        /\ \A j \in (Len(scores) - k + 1)..Len(scores) : scores[j] = score
        /\ (k < 6 /\ k < Len(scores)) => scores[Len(scores) - k] /= score

\* What a loop has left to do at most: seven passes for each residue still to
\* come in, and the passes that complete a run of identical scores.
LoopBudget(sl, prot, side, scores) ==
    7 * Cardinality(Beyond(sl, prot, side)) + (6 - Trailing(scores, sl.score))

\* A number that is 0 when no call of maximise_score is running on slice i.
Budget(sl, f, prot) ==
    LET phase == 7 * Len(prot.residues_exposed) + 7
    IN  CASE f.pc = "up_loop"        -> 5 * phase + LoopBudget(sl, prot, 1, f.new_scores_up)
          [] f.pc = "up_backtrack"   -> 4 * phase
          [] f.pc = "down_start"     -> 3 * phase
          [] f.pc = "down_loop"      -> 2 * phase + LoopBudget(sl, prot, 0, f.new_scores_down)
          [] f.pc = "down_backtrack" -> phase
          [] OTHER                   -> 0

\* C16: each step of a call of maximise_score lowers a non-negative number
\* that depends only on the position in the call, the residues still outside
\* the slab and the run of identical recorded scores; so every call ends,
\* after finitely many passes of each loop, with no cap on the number of
\* passes.
C16_MaximiseTerminates ==
    [][\A i \in DOMAIN slices :
          InMaximise(i) => /\ Budget(slices'[i], frames'[i], protein) < Budget(slices[i], frames[i], protein)
                           /\ Budget(slices'[i], frames'[i], protein) >= 0]_vars

\* Both loops have run and the call has returned.
C16_Witness ==
    \E i \in DOMAIN slices :
        /\ frames[i].pc = "idle"
        /\ frames[i].call = "maximise_score"
        /\ frames[i].raised = "None"
        /\ slices[i].thickness[0] > 7
        /\ slices[i].thickness[1] > 7

\* C17: from the first call of maximise_score on a freshly constructed
\* slice, which starts at thickness (7, 7), until after that call has ended,
\* both thickness components are at least 7.
C17_NeverBelowStartingThickness ==
    \A i \in DOMAIN slices :
        (\/ frames[i].ncalls = 0
         \/ frames[i].ncalls = 1 /\ frames[i].pc = "idle" /\ frames[i].call = "maximise_score")
        => /\ slices[i].thickness[0] >= 7
           /\ slices[i].thickness[1] >= 7

\* The call has returned on a non-empty slice after both sides were explored
\* and backtracked all the way to the starting thickness.
C17_Witness ==
    \E i \in DOMAIN slices :
        /\ frames[i].ncalls = 1
        /\ frames[i].pc = "idle"
        /\ frames[i].call = "maximise_score"
        /\ frames[i].raised = "None"
        /\ slices[i].score /= Zero
        /\ slices[i].thickness[0] = 7
        /\ slices[i].thickness[1] = 7

\* Slice sl as its constructor built it, then optimised with no other slice
\* around.
OptimisedAlone(sl, prot) ==
    maximise_score_result(Slice_init(prot, sl.center, sl.normal, sl.score_method).slice, prot).slice

\* C18: every step of find_residues, compute_score, thicken or maximise_score
\* on one slice leaves the protein and the other slice as they were, and a
\* slice whose maximise_score ends, however its steps were interleaved with
\* the other slice's calls, has the thickness, residues and score it gets
\* when optimised alone.
C18_DirectionsIndependent ==
    [][/\ protein' = protein
       /\ \E i \in DOMAIN slices :
             \A j \in DOMAIN slices \ { i } : slices'[j] = slices[j] /\ frames'[j] = frames[j]
       /\ \A i \in DOMAIN slices :
             (InMaximise(i) /\ frames'[i].pc = "idle")
             => slices'[i] = OptimisedAlone(slices[i], protein)]_vars

\* Both slices have been optimised over the same protein and both have
\* grown, to different residue lists.
C18_Witness ==
    /\ Len(slices) = 2
    /\ frames[1].pc = "idle" /\ frames[1].call = "maximise_score" /\ frames[1].raised = "None"
    /\ frames[2].pc = "idle" /\ frames[2].call = "maximise_score" /\ frames[2].raised = "None"
    /\ slices[1].thickness /= (0 :> 7 @@ 1 :> 7)
    /\ slices[2].thickness /= (0 :> 7 @@ 1 :> 7)
    /\ slices[1].residues /= slices[2].residues

====
